---- MODULE Spec2Model ----
(***************************************************************************)
(* A state-machine model of the encounter and combat subsystem of rpg-cli: *)
(* the command layer (src/src/command.rs), the enemy and NPC spawners      *)
(* (src/src/character/enemy.rs, npc.rs) and the two quests                 *)
(* (src/src/quest/*.rs).  The Game, Character, Location, Randomizer and    *)
(* class-catalog modules are not part of the sources at hand; the parts of *)
(* them the commands call are modelled from the specification and are      *)
(* marked "from the specification" below.                                   *)
(***************************************************************************)
EXTENDS Integers, Sequences, FiniteSets, TLC

VARIABLES
    location,      \* game.location
    player,        \* game.player: level, xp, current_hp, class, rings, status
    gold,          \* game.gold
    in_combat,     \* game.in_combat: Option<Character>
    in_encounter,  \* game.in_encounter: Option<npc::Encounter>
    hardcore,      \* game.hardcore
    tombstones,    \* game.tombstones: a sequence of [loc, gold]
    inventory,     \* game inventory: number of potions held
    quests,        \* the quests' finished flags
    cmd,           \* the command given (or the operation run), with its arguments
    result,        \* what it returned: "ok", "err", or "none" before any command
    errmsg,        \* the error message of a failed command
    resets,        \* number of game.reset() calls made by the last command
    handled,       \* what the quests' handle returned for the last event
    events,        \* every event delivered to the quests so far
    equips,        \* every ring passed to equip_ring so far
    spawned,       \* the result of the last spawner call
    respawned,     \* the result of a second spawner call from the same state
    opres,         \* what the game operation under the last command returned
    datafile,      \* the save file: absent, a saved game, or unreadable
    pc,            \* where run_game is: "shell" (not running), "removed",
                   \* "loaded" or "ran"
    should_save,   \* the flag command::run handed back to run_game
    budget         \* how many more times the program is run

vars == <<location, player, gold, in_combat, in_encounter, hardcore,
          tombstones, inventory, quests, cmd, result, errmsg, resets,
          handled, events, equips, spawned, respawned, opres, datafile, pc,
          should_save, budget>>

(***************************************************************************)
(* Bounds of the model.                                                    *)
(***************************************************************************)
MaxLevel == 21
MaxDist == 12
MaxEvents == 4
MaxEquips == 4
\* The saved games the runs start from: potions carried, battles won (in
\* the games of combat), battles won (in the games of the NPCs and the
\* shop, where a potion costs the gold of two).
MaxPotions == 1
MaxWins == 1
MaxSales == 2
\* The runs of the program from no save file.
MaxCmds == 3
MaxDepth == 1

(***************************************************************************)
(* Option values.                                                          *)
(***************************************************************************)
None == [some |-> FALSE]

Some(x) == [some |-> TRUE, val |-> x]

Max(a, b) == IF a >= b THEN a ELSE b

\* Rust's integer division truncates toward zero.
TruncDiv(a, b) == IF a >= 0 THEN a \div b ELSE -((-a) \div b)

(***************************************************************************)
(* Locations (from the specification): a location is its distance length   *)
(* from home and whether it is the game's data directory.                  *)
(***************************************************************************)
Loc(n, r) == [len |-> n, rpg |-> r]

Home == Loc(0, FALSE)

is_home(loc) == loc.len = 0

is_rpg_dir(loc) == loc.rpg

distance_len(loc) == loc.len

(***************************************************************************)
(* The class catalog (from the specification): name, category, and a       *)
(* (base, growth) pair per stat.  Enemy classes that share the name prefix *)
(* before the first space are one family; family is that prefix.           *)
(***************************************************************************)
Class(n, f, c, h, s, sp) ==
    [name |-> n, family |-> f, category |-> c, hp |-> <<h, 1>>,
     strength |-> <<s, 1>>, speed |-> <<sp, 1>>]

PlayerClasses ==
    << Class("warrior", "warrior", "Player", 2, 2, 2),
       Class("guardian", "guardian", "Player", 4, 3, 2) >>

player_first == PlayerClasses[1]

player_by_name(n) ==
    LET idx == {i \in 1..Len(PlayerClasses) : PlayerClasses[i].name = n} IN
    IF idx = {} THEN None ELSE Some(PlayerClasses[CHOOSE i \in idx : TRUE])

EnemyClasses ==
    << Class("rat", "rat", "Common", 1, 1, 1),
       Class("wolf", "wolf", "Common", 1, 1, 2),
       Class("wolf dire", "wolf", "Rare", 2, 2, 2),
       Class("wolf alpha", "wolf", "Legendary", 3, 3, 2),
       Class("wolf ghost", "wolf", "Common", 3, 1, 1),
       Class("dragon", "dragon", "Legendary", 4, 3, 1),
       Class("dragon elder", "dragon", "Legendary", 5, 3, 1),
       Class("wisp", "wisp", "Mythic", 2, 1, 3),
       Class("orc", "orc", "Common", 1, 2, 1),
       Class("orc brute", "orc", "Rare", 3, 3, 1),
       Class("orc chief", "orc", "Legendary", 3, 4, 1),
       Class("orc whelp", "orc", "Common", 2, 1, 2) >>

Families == {EnemyClasses[i].family : i \in 1..Len(EnemyClasses)}

(***************************************************************************)
(* Characters (from the specification).                                    *)
(***************************************************************************)
max_hp_of(class, level) == class.hp[1] + class.hp[2] * (Max(level, 1) - 1)

Character_new(class, level) ==
    [class |-> class, level |-> level, xp |-> 0,
     current_hp |-> max_hp_of(class, level),
     left_ring |-> "None", right_ring |-> "None", status_effect |-> "None",
     skills |-> {}]

Character_player == Character_new(player_first, 1)

max_hp(c) == max_hp_of(c.class, c.level)

Rings == {"Evade", "Void", "Ruling"}

\* The two ring slots are a FIFO of capacity 2: the new ring enters the left
\* slot, the left ring moves to the right slot, the right ring is dropped.
equip_ring(c, ring) == [c EXCEPT !.left_ring = ring, !.right_ring = c.left_ring]

enemies_evaded(c) == c.left_ring = "Evade" \/ c.right_ring = "Evade"

(***************************************************************************)
(* The Randomizer (from the specification).  The injected Randomizer's     *)
(* draws are the record rnd: appear (should_enemy_appear), jitter          *)
(* (enemy_level) and range (range(n), as a draw reduced modulo n).         *)
(* The draws taken straight from rand::thread_rng() are the record trng:   *)
(* shadow and dev (gen_ratio(1, 10)) and group (choose among the families).*)
(***************************************************************************)
RndDraws == [appear : BOOLEAN, jitter : {-1, 0, 1}, range : 0..2]

TrngDraws == [shadow : BOOLEAN, dev : BOOLEAN, group : Families]

enemy_level(rnd, level) == Max(1, level + rnd.jitter)

should_enemy_appear(rnd, loc) == rnd.appear

range(rnd, n) == rnd.range % n

(***************************************************************************)
(* Quests: src/src/quest/defeat_guardian.rs and find_amulet.rs.  handle    *)
(* returns the new value of the finished flag (self) and what it returns   *)
(* to the caller (ret).                                                    *)
(***************************************************************************)
Events ==
    { [kind |-> "BattleWon", enemy |-> "guardian"],
      [kind |-> "BattleWon", enemy |-> "rat"],
      [kind |-> "ItemAdded", item |-> "Amulet"],
      [kind |-> "ItemAdded", item |-> "Potion"],
      [kind |-> "TombstoneFound"] }

\* A faulty handle: the flag is assigned on every BattleWon event.
DefeatGuardian_handle_Assigns(finished, event) ==
    LET f == IF event.kind = "BattleWon"
             THEN event.enemy = "guardian" ELSE finished
    IN [self |-> f, ret |-> f]

DefeatGuardian_handle(finished, event) ==
    LET f == IF event.kind = "BattleWon" /\ event.enemy = "guardian"
             THEN TRUE ELSE finished
    IN [self |-> f, ret |-> f]

\* A faulty handle: any item added finishes the quest.
FindAmulet_handle_AnyItem(finished, event) ==
    LET f == IF event.kind = "ItemAdded" THEN TRUE ELSE finished
    IN [self |-> f, ret |-> f]

FindAmulet_handle(finished, event) ==
    LET f == IF event.kind = "ItemAdded" /\ event.item = "Amulet"
             THEN TRUE ELSE finished
    IN [self |-> f, ret |-> f]

\* The quest list of a new game (from the specification): dg_listed says
\* whether "Defeat the Guardian." is in quests.list(); tomb is the
\* visit-a-tombstone quest of the tombstone economy.
Quests_new ==
    [dg |-> FALSE, fa |-> FALSE, dg_listed |-> TRUE,
     tomb |-> FALSE]

\* quests.list(): the (completed, description) pairs of the listed quests.
quests_list(q) ==
    (IF q.dg_listed THEN {<<q.dg, "Defeat the Guardian.">>} ELSE {})
    \cup {<<q.fa, "Find the Amulet of Power.">>}

(***************************************************************************)
(* The enemy spawner: src/src/character/enemy.rs.                          *)
(***************************************************************************)
\* A faulty final boss: only the left ring slot is looked at.
spawn_gorthaur_LeftOnly(p, loc) ==
    LET wearing_ring == p.left_ring = "Ruling" IN
    IF wearing_ring /\ distance_len(loc) >= 100
    THEN LET c == player_first IN
         Some(<< [c EXCEPT !.name = "gorthaur",
                           !.hp = <<c.hp[1] * 2, c.hp[2]>>,
                           !.strength = <<c.strength[1] * 2, c.strength[2]>>,
                           !.category = "Legendary"],
                 p.level >>)
    ELSE None

spawn_gorthaur(p, loc) ==
    LET wearing_ring == p.left_ring = "Ruling" \/ p.right_ring = "Ruling" IN
    IF wearing_ring /\ distance_len(loc) >= 100
    THEN LET c == player_first IN
         Some(<< [c EXCEPT !.name = "gorthaur",
                           !.hp = <<c.hp[1] * 2, c.hp[2]>>,
                           !.strength = <<c.strength[1] * 2, c.strength[2]>>,
                           !.category = "Legendary"],
                 p.level >>)
    ELSE None

spawn_shadow(p, loc, trng) ==
    IF is_home(loc) /\ trng.shadow
    THEN Some(<< [p.class EXCEPT !.name = "shadow", !.category = "Rare"],
                 p.level + 3 >>)
    ELSE None

spawn_dev(p, loc, trng) ==
    IF is_rpg_dir(loc) /\ trng.dev
    THEN LET c == player_first IN
         Some(<< [c EXCEPT !.name = "dev",
                           !.hp = <<TruncDiv(c.hp[1], 2), c.hp[2]>>,
                           !.strength = <<TruncDiv(c.strength[1], 2), c.strength[2]>>,
                           !.speed = <<TruncDiv(c.speed[1], 2), c.speed[2]>>,
                           !.category = "Rare"],
                 p.level >>)
    ELSE None

\* A faulty tier requirement: Rare variants are open to every level.
level_req_RareOpen(category) ==
    CASE category = "Common" -> 1
      [] category = "Rare" -> 1
      [] category = "Legendary" -> 10
      [] OTHER -> 1

level_req(category) ==
    CASE category = "Common" -> 1
      [] category = "Rare" -> 5
      [] category = "Legendary" -> 10
      [] OTHER -> 1

\* Iterator::max_by_key returns the last of several equally maximal elements.
max_by_hp(s) ==
    LET top == CHOOSE h \in {s[i].hp[1] : i \in 1..Len(s)} :
                   \A i \in 1..Len(s) : s[i].hp[1] <= h
        last == CHOOSE i \in 1..Len(s) :
                   /\ s[i].hp[1] = top
                   /\ \A j \in 1..Len(s) : s[j].hp[1] = top => j <= i
    IN s[last]

InFamily(g, e) == e.family = g

\* A faulty level: the floor of 1 is missing.
spawn_random_level_NoFloor(level, dlen) == TruncDiv(level, 10) + dlen - 1

spawn_random_level(level, dlen) == Max(TruncDiv(level, 10) + dlen - 1, 1)

spawn_random(p, dlen, trng) ==
    LET inGroup(e) == InFamily(trng.group, e)
        enemy_group == SelectSeq(EnemyClasses, inGroup)
        eligible(e) == p.level >= level_req(e.category)
        candidates == SelectSeq(enemy_group, eligible)
        enemy == IF candidates = <<>> THEN enemy_group[1]
                 ELSE max_by_hp(candidates)
    IN << enemy, spawn_random_level(p.level, dlen) >>

\* A faulty spawn: the easter egg is tried before the final boss and the
\* mirror.
spawn_roll_DevFirst(p, loc, q, rnd, trng) ==
    LET dlen == distance_len(loc) IN
    IF should_enemy_appear(rnd, loc)
    THEN LET guardian_quest_unlocked ==
                 \E e \in quests_list(q) :
                     ~e[1] /\ e[2] = "Defeat the Guardian."
             g == spawn_gorthaur(p, loc)
             s == spawn_shadow(p, loc, trng)
             d == spawn_dev(p, loc, trng)
             pick == IF guardian_quest_unlocked /\ dlen > 10
                     THEN << player_by_name("guardian").val, p.level + 5 >>
                     ELSE IF d.some THEN d.val
                     ELSE IF g.some THEN g.val
                     ELSE IF s.some THEN s.val
                     ELSE spawn_random(p, dlen, trng)
         IN Some(Character_new(pick[1], enemy_level(rnd, pick[2])))
    ELSE None

\* A faulty spawn: the boss already appears at distance length 10.
spawn_roll_BossAtTen(p, loc, q, rnd, trng) ==
    LET dlen == distance_len(loc) IN
    IF should_enemy_appear(rnd, loc)
    THEN LET guardian_quest_unlocked ==
                 \E e \in quests_list(q) :
                     ~e[1] /\ e[2] = "Defeat the Guardian."
             g == spawn_gorthaur(p, loc)
             s == spawn_shadow(p, loc, trng)
             d == spawn_dev(p, loc, trng)
             pick == IF guardian_quest_unlocked /\ dlen >= 10
                     THEN << player_by_name("guardian").val, p.level + 5 >>
                     ELSE IF g.some THEN g.val
                     ELSE IF s.some THEN s.val
                     ELSE IF d.some THEN d.val
                     ELSE spawn_random(p, dlen, trng)
         IN Some(Character_new(pick[1], enemy_level(rnd, pick[2])))
    ELSE None

\* spawn once the evasion check has passed: the appearance roll, the choice
\* of the class and the level, the level jitter.
spawn_roll(p, loc, q, rnd, trng) ==
    LET dlen == distance_len(loc) IN
    IF should_enemy_appear(rnd, loc)
    THEN LET guardian_quest_unlocked ==
                 \E e \in quests_list(q) :
                     ~e[1] /\ e[2] = "Defeat the Guardian."
             g == spawn_gorthaur(p, loc)
             s == spawn_shadow(p, loc, trng)
             d == spawn_dev(p, loc, trng)
             pick == IF guardian_quest_unlocked /\ dlen > 10
                     THEN << player_by_name("guardian").val, p.level + 5 >>
                     ELSE IF g.some THEN g.val
                     ELSE IF s.some THEN s.val
                     ELSE IF d.some THEN d.val
                     ELSE spawn_random(p, dlen, trng)
         IN Some(Character_new(pick[1], enemy_level(rnd, pick[2])))
    ELSE None

\* A faulty spawn: the evasion check is missing.
spawn_NoEvade(p, loc, q, rnd, trng) == spawn_roll(p, loc, q, rnd, trng)

spawn(p, loc, q, rnd, trng) ==
    IF enemies_evaded(p) THEN None
    ELSE spawn_roll(p, loc, q, rnd, trng)

(***************************************************************************)
(* The NPC spawner: src/src/character/npc.rs.  rnd1 is the draw of         *)
(* should_enemy_appear, rnd2 the draw of range(3).                         *)
(***************************************************************************)
npc_spawn(g, rnd1, rnd2) ==
    IF should_enemy_appear(rnd1, g.location)
    THEN LET n == range(rnd2, 3)
             encounter == CASE n = 0 -> "Gambler"
                            [] n = 1 -> "Witch"
                            [] n = 2 -> "GhostlyMaiden"
                            [] OTHER -> "None"
         IN IF encounter # "None"
            THEN [g EXCEPT !.in_encounter = encounter]
            ELSE g
    ELSE g

(***************************************************************************)
(* The game (from the specification): the operations of Game that the      *)
(* command layer calls.  Each returns the game after it and its result:    *)
(* "ok", "dead" (the distinguished Dead error) or "err" (any other error). *)
(***************************************************************************)
Game_new ==
    [location |-> Home, player |-> Character_player, gold |-> 0,
     in_combat |-> None, in_encounter |-> "None", hardcore |-> FALSE,
     tombstones |-> <<>>, inventory |-> 0, quests |-> Quests_new]

G(g, res, msg) == [game |-> g, res |-> res, msg |-> msg]

\* game.reset(): a new game that keeps the tombstones and the quests.
game_reset(g) ==
    [Game_new EXCEPT !.tombstones = g.tombstones, !.quests = g.quests]

\* The quest event bus: the event goes to every quest not yet completed.
quests_handle(q, event) ==
    [q EXCEPT
       !.dg = IF q.dg THEN TRUE ELSE DefeatGuardian_handle(q.dg, event).ret,
       !.fa = IF q.fa THEN TRUE ELSE FindAmulet_handle(q.fa, event).ret]

TombstoneReward == 200

BattleGold == 100

BattleXp == 1

BurnDamage == 1

BribeCost == 100

xp_for_next(c) == 30 * c.level

\* player.add_experience(): a level is gained for every xp_for_next.
RECURSIVE add_experience(_, _)
add_experience(c, xp) ==
    IF c.xp + xp >= xp_for_next(c)
    THEN add_experience([c EXCEPT !.level = @ + 1, !.xp = 0,
                                  !.current_hp = @ + c.class.hp[2]],
                        c.xp + xp - xp_for_next(c))
    ELSE [c EXCEPT !.xp = @ + xp]

\* The death ledger: a tombstone at the current location takes the gold.
settle_death(g) ==
    [g EXCEPT !.tombstones = Append(@, [loc |-> g.location, gold |-> g.gold]),
              !.gold = 0,
              !.player.current_hp = 0]

\* One exchange of damage from the enemy to the player.
enemy_hits(g, d) ==
    LET hp == g.player.current_hp - d.edmg IN
    IF hp <= 0 THEN G(settle_death(g), "dead", "")
    ELSE G([g EXCEPT !.player.current_hp = hp,
                     !.player.status_effect =
                         IF d.burn THEN "Burn" ELSE @], "ok", "")

\* The player's damage dmg on the enemy, then the enemy's answer.
exchange(g, dmg, d) ==
    LET enemy == g.in_combat.val
        ehp == enemy.current_hp - dmg
    IN IF ehp <= 0
       THEN G([g EXCEPT
                 !.in_combat = None,
                 !.gold = @ + BattleGold,
                 !.player = add_experience(@, BattleXp),
                 !.quests = quests_handle(@, [kind |-> "BattleWon",
                                              enemy |-> enemy.class.name])],
              "ok", "")
       ELSE enemy_hits([g EXCEPT !.in_combat = Some([enemy EXCEPT
                                     !.current_hp = ehp])], d)

game_battle_round(g, d) ==
    IF ~g.in_combat.some THEN G(g, "err", "Not in combat.")
    ELSE exchange(g, d.pdmg, d)

game_player_flee(g, d) ==
    IF ~g.in_combat.some THEN G(g, "err", "Not in combat.")
    ELSE IF d.roll THEN G([g EXCEPT !.in_combat = None], "ok", "")
    ELSE enemy_hits(g, d)

game_player_bribe(g, d) ==
    IF ~g.in_combat.some THEN G(g, "err", "Not in combat.")
    ELSE LET cost == BribeCost * g.in_combat.val.level IN
         IF g.gold < cost THEN G(g, "err", "Not enough gold.")
         ELSE IF d.roll
         THEN G([g EXCEPT !.in_combat = None, !.gold = @ - cost], "ok", "")
         ELSE enemy_hits(g, d)

Skills == {"fireball"}

learn_skill(c, name) ==
    IF name \notin Skills THEN [c |-> c, res |-> "err", msg |-> "Unknown skill."]
    ELSE IF name \in c.skills
    THEN [c |-> c, res |-> "err", msg |-> "Skill already learned."]
    ELSE [c |-> [c EXCEPT !.skills = @ \cup {name}], res |-> "ok", msg |-> ""]

game_use_skill(g, name, d) ==
    IF name \notin Skills THEN G(g, "err", "Unknown skill.")
    ELSE IF name \notin g.player.skills THEN G(g, "err", "Skill not learned.")
    ELSE IF ~g.in_combat.some THEN G(g, "err", "Not in combat.")
    ELSE exchange(g, d.pdmg + 1, d)

\* player.restore(): full health.  The status effect stays: it lasts until
\* it is cured, and arriving home is no cure.
restore(c) == [c EXCEPT !.current_hp = max_hp(c)]

\* player.apply_status_effects(): the tick of the active status effect.
apply_status_effects(g) ==
    IF g.player.status_effect = "Burn"
    THEN LET hp == g.player.current_hp - BurnDamage IN
         IF hp <= 0 THEN G(settle_death(g), "dead", "")
         ELSE G([g EXCEPT !.player.current_hp = hp], "ok", "")
    ELSE G(g, "ok", "")

\* game.visit(): the player is at dest, is restored there when it is home,
\* and the active status effect ticks, as on every move.
game_visit(g, dest) ==
    LET g1 == [g EXCEPT !.location = dest]
        g2 == IF is_home(dest) THEN [g1 EXCEPT !.player = restore(@)] ELSE g1
    IN apply_status_effects(g2)

\* game.go_to(): the visit, then the encounter generator; an enemy or an
\* NPC enters only an empty encounter slot, and at most one of the two.
game_go_to(g, dest, rnd, trng, rnd1, rnd2) ==
    LET v == game_visit(g, dest) IN
    IF v.res # "ok" THEN v
    ELSE IF is_home(dest) \/ v.game.in_combat.some
            \/ v.game.in_encounter # "None"
    THEN v
    ELSE LET e == spawn(v.game.player, v.game.location, v.game.quests, rnd, trng)
         IN IF e.some THEN G([v.game EXCEPT !.in_combat = e], "ok", "")
            ELSE G(npc_spawn(v.game, rnd1, rnd2), "ok", "")

TombsAt(ts, loc) == SelectSeq(ts, LAMBDA t : t.loc = loc)

RECURSIVE SumGold(_)
SumGold(ts) == IF ts = <<>> THEN 0 ELSE Head(ts).gold + SumGold(Tail(ts))

\* A faulty inspect: the gold is credited and the tombstone stays.
game_inspect_KeepsTomb(g) ==
    LET found == TombsAt(g.tombstones, g.location) IN
    IF found = <<>> THEN g
    ELSE [g EXCEPT
            !.gold = @ + SumGold(found)
                       + (IF g.quests.tomb THEN 0 ELSE TombstoneReward),
            !.quests.tomb = TRUE]

\* game.inspect(): picks up the tombstones of the current location; the
\* first tombstone ever picked up completes the tombstone quest.
game_inspect(g) ==
    LET found == TombsAt(g.tombstones, g.location) IN
    IF found = <<>> THEN g
    ELSE [g EXCEPT
            !.tombstones = SelectSeq(@, LAMBDA t : t.loc # g.location),
            !.gold = @ + SumGold(found)
                       + (IF g.quests.tomb THEN 0 ELSE TombstoneReward),
            !.quests.tomb = TRUE]

\* game.add_item(): the item enters the inventory and the quests are told.
game_add_item(g, key) ==
    [g EXCEPT !.inventory = @ + 1,
              !.quests = quests_handle(@, [kind |-> "ItemAdded", item |-> key])]

(***************************************************************************)
(* The command layer: src/src/command.rs.  Each command returns the game   *)
(* after it, "ok" or "err", the error message, and the number of times it  *)
(* called game.reset().                                                    *)
(***************************************************************************)
R(g, res, msg, n) == [game |-> g, res |-> res, msg |-> msg, resets |-> n]

\* A faulty bet: a lost bet leaves the Gambler in place.
bet_NoClearOnLoss(g, amount, rnd) ==
    IF g.in_encounter = "Gambler"
    THEN IF amount > g.gold
         THEN R(g, "err", "You don't have that much gold to bet.", 0)
         ELSE IF range(rnd, 2) = 0
         THEN R([g EXCEPT !.gold = @ + amount, !.in_encounter = "None"],
                "ok", "", 0)
         ELSE R([g EXCEPT !.gold = @ - amount], "ok", "", 0)
    ELSE R(g, "err", "There is no one to bet with here.", 0)

bet(g, amount, rnd) ==
    IF g.in_encounter = "Gambler"
    THEN IF amount > g.gold
         THEN R(g, "err", "You don't have that much gold to bet.", 0)
         ELSE IF range(rnd, 2) = 0
         THEN R([g EXCEPT !.gold = @ + amount, !.in_encounter = "None"],
                "ok", "", 0)
         ELSE R([g EXCEPT !.gold = @ - amount, !.in_encounter = "None"],
                "ok", "", 0)
    ELSE R(g, "err", "There is no one to bet with here.", 0)

brew(g) ==
    IF g.in_encounter = "Witch"
    THEN R([game_add_item(g, "Potion") EXCEPT !.in_encounter = "None"],
           "ok", "", 0)
    ELSE R(g, "err", "There is no witch here to brew a potion.", 0)

\* A faulty listen: the slot is cleared whoever is there.
listen_AlwaysClears(g, rnd) ==
    IF g.in_encounter = "GhostlyMaiden"
    THEN R([g EXCEPT !.in_encounter = "None"], "ok", "", 0)
    ELSE R([g EXCEPT !.in_encounter = "None"], "err",
           "There is no one to listen to here.", 0)

listen(g, rnd) ==
    IF g.in_encounter = "GhostlyMaiden"
    THEN LET lore == range(rnd, 3) IN
         R([g EXCEPT !.in_encounter = "None"], "ok", "", 0)
    ELSE R(g, "err", "There is no one to listen to here.", 0)

learn(g, skill_name) ==
    LET l == learn_skill(g.player, skill_name) IN
    IF l.res = "ok" THEN R([g EXCEPT !.player = l.c], "ok", "", 0)
    ELSE R(g, "err", l.msg, 0)

use_skill(g, skill_name, d) ==
    LET r == game_use_skill(g, skill_name, d) IN
    IF r.res # "ok"
    THEN IF r.res = "dead" THEN R(game_reset(r.game), "err", "", 1)
         ELSE R(r.game, "err", r.msg, 0)
    ELSE R(r.game, "ok", "", 0)

\* A faulty attack: every error resets the game, not only Dead.
attack_ResetOnAnyError(g, d) ==
    LET r == game_battle_round(g, d) IN
    IF r.res # "ok"
    THEN R(game_reset(r.game), "err", r.msg, 1)
    ELSE R(r.game, "ok", "", 0)

attack(g, d) ==
    LET r == game_battle_round(g, d) IN
    IF r.res # "ok"
    THEN IF r.res = "dead" THEN R(game_reset(r.game), "err", "", 1)
         ELSE R(r.game, "err", r.msg, 0)
    ELSE R(r.game, "ok", "", 0)

\* A faulty flee: Dead is reported without the reset.
flee_NoReset(g, d) ==
    LET r == game_player_flee(g, d) IN
    IF r.res # "ok" THEN R(r.game, "err", r.msg, 0)
    ELSE R(r.game, "ok", "", 0)

flee(g, d) ==
    LET r == game_player_flee(g, d) IN
    IF r.res # "ok"
    THEN IF r.res = "dead" THEN R(game_reset(r.game), "err", "", 1)
         ELSE R(r.game, "err", r.msg, 0)
    ELSE R(r.game, "ok", "", 0)

bribe(g, d) ==
    LET r == game_player_bribe(g, d) IN
    IF r.res # "ok"
    THEN IF r.res = "dead" THEN R(game_reset(r.game), "err", "", 1)
         ELSE R(r.game, "err", r.msg, 0)
    ELSE R(r.game, "ok", "", 0)

\* A faulty forced move: the location changes without the visit.
change_dir_op_ForceSkipsVisit(g, dest, force, rnd, trng, rnd1, rnd2) ==
    IF ~dest.some THEN G(g, "err", "No such file or directory.")
    ELSE IF force THEN G([g EXCEPT !.location = dest.val], "ok", "")
    ELSE game_go_to(g, dest.val, rnd, trng, rnd1, rnd2)

\* Location::from(dest) fails for a path that does not exist: dest is None.
change_dir_op(g, dest, force, rnd, trng, rnd1, rnd2) ==
    IF ~dest.some THEN G(g, "err", "No such file or directory.")
    ELSE IF force THEN game_visit(g, dest.val)
    ELSE game_go_to(g, dest.val, rnd, trng, rnd1, rnd2)

\* A faulty cd: Dead is reported without the reset.
change_dir_NoReset(g, dest, force, rnd, trng, rnd1, rnd2) ==
    LET r == change_dir_op(g, dest, force, rnd, trng, rnd1, rnd2) IN
    IF r.res # "ok" THEN R(r.game, "err", r.msg, 0)
    ELSE R(r.game, "ok", "", 0)

change_dir(g, dest, force, rnd, trng, rnd1, rnd2) ==
    LET r == change_dir_op(g, dest, force, rnd, trng, rnd1, rnd2) IN
    IF r.res # "ok"
    THEN IF r.res = "dead" THEN R(game_reset(r.game), "err", "", 1)
         ELSE R(r.game, "err", r.msg, 0)
    ELSE R(r.game, "ok", "", 0)

\* A faulty battle: the enemy in the combat slot does not stop the spawn.
battle_Respawns(g, rnd, trng) ==
    LET e == spawn(g.player, g.location, g.quests, rnd, trng) IN
    IF e.some THEN R([g EXCEPT !.in_combat = e], "ok", "", 0)
    ELSE R(g, "ok", "", 0)

battle(g, rnd, trng) ==
    IF g.in_combat.some THEN R(g, "err", "Already in combat.", 0)
    ELSE LET e == spawn(g.player, g.location, g.quests, rnd, trng) IN
         IF e.some THEN R([g EXCEPT !.in_combat = e], "ok", "", 0)
         ELSE R(g, "ok", "", 0)

inspect(g) == R(game_inspect(g), "ok", "", 0)

reset(g) == R(game_reset(g), "ok", "", 1)

(***************************************************************************)
(* Items, classes and experience as the commands use them.  The item and   *)
(* character modules are not part of the sources at hand; what follows is  *)
(* what the tests of src/src/command.rs and the calls in it show: a potion *)
(* is bought at home for 200 gold at level 1, and using one heals.         *)
(***************************************************************************)
\* str::to_lowercase.  A String of the command line is the sequence of its
\* characters, over ASCII; the result is the string of the lowered
\* characters, each capital letter replaced by its small letter and every
\* other character kept.
RECURSIVE to_lowercase(_)
to_lowercase(s) ==
    LET upper == <<"A", "B", "C", "D", "E", "F", "G", "H", "I", "J", "K", "L",
                   "M", "N", "O", "P", "Q", "R", "S", "T", "U", "V", "W", "X",
                   "Y", "Z">>
        lower == <<"a", "b", "c", "d", "e", "f", "g", "h", "i", "j", "k", "l",
                   "m", "n", "o", "p", "q", "r", "s", "t", "u", "v", "w", "x",
                   "y", "z">>
        lowered(ch) ==
            IF \E i \in 1..Len(upper) : upper[i] = ch
            THEN lower[CHOOSE i \in 1..Len(upper) : upper[i] = ch]
            ELSE ch
    IN IF s = <<>> THEN ""
       ELSE lowered(Head(s)) \o to_lowercase(Tail(s))

\* Key::from: the item key of a name given on the command line.
Key_from(name) == IF name = "potion" THEN Some("Potion") ELSE None

PotionCost(level) == 200 * level

PotionHeal(c) == Max(1, max_hp(c) \div 4)

\* item::shop::list: the shop is open at home only.
shop_list(g) ==
    IF ~is_home(g.location) THEN G(g, "err", "Shop is only allowed at home.")
    ELSE G(g, "ok", "")

RECURSIVE add_items(_, _)
add_items(g, keys) ==
    IF keys = <<>> THEN g
    ELSE add_items(game_add_item(g, Head(keys)), Tail(keys))

\* item::shop::buy: all the items are bought, or none.
shop_buy(g, keys) ==
    LET total_cost == Len(keys) * PotionCost(g.player.level) IN
    IF ~is_home(g.location) THEN G(g, "err", "Shop is only allowed at home.")
    ELSE IF g.gold < total_cost THEN G(g, "err", "Not enough gold.")
    ELSE G(add_items([g EXCEPT !.gold = @ - total_cost], keys), "ok", "")

\* game.use_item(): the item leaves the inventory and is applied.
game_use_item(g, key) ==
    IF g.inventory = 0 THEN G(g, "err", "Item not found.")
    ELSE G([g EXCEPT !.inventory = @ - 1,
                     !.player.current_hp =
                         IF @ + PotionHeal(g.player) > max_hp(g.player)
                         THEN max_hp(g.player)
                         ELSE @ + PotionHeal(g.player)],
           "ok", "")

\* game.describe(): the description of an item is printed.
game_describe(g, key) == G(g, "ok", "")

\* player.change_class(): the class of the name replaces the player's.
change_class(c, name) ==
    LET class == player_by_name(name) IN
    IF ~class.some THEN [c |-> c, res |-> "err"]
    ELSE [c |-> [c EXCEPT !.class = class.val,
                          !.current_hp = max_hp_of(class.val, c.level)],
          res |-> "ok"]

(***************************************************************************)
(* The rest of the command layer of src/src/command.rs.                    *)
(***************************************************************************)
\* skills prints and leaves the game alone.
skills(g) == R(g, "ok", "", 0)

\* stat: the status, or the description of each item named.
RECURSIVE stat(_, _)
stat(g, items) ==
    IF items = <<>> THEN R(g, "ok", "", 0)
    ELSE LET key == Key_from(Head(items)) IN
         IF ~key.some THEN R(g, "err", "Item not found.", 0)
         ELSE LET r == game_describe(g, key.val) IN
              IF r.res # "ok" THEN R(r.game, "err", r.msg, 0)
              ELSE stat(r.game, Tail(items))

\* Key::from over the items of buy: the keys, or None at the first name
\* that is no item.
RECURSIVE Keys_from(_)
Keys_from(items) ==
    IF items = <<>> THEN Some(<<>>)
    ELSE LET key == Key_from(Head(items))
             rest == Keys_from(Tail(items))
         IN IF key.some /\ rest.some THEN Some(<<key.val>> \o rest.val)
            ELSE None

shop(g, items) ==
    IF items = <<>>
    THEN LET r == shop_list(g) IN
         IF r.res # "ok" THEN R(r.game, "err", r.msg, 0)
         ELSE R(r.game, "ok", "", 0)
    ELSE LET keys == Keys_from(items) IN
         IF ~keys.some THEN R(g, "err", "Item not found.", 0)
         ELSE LET r == shop_buy(g, keys.val) IN
              IF r.res # "ok" THEN R(r.game, "err", r.msg, 0)
              ELSE R(r.game, "ok", "", 0)

\* use: the items are used one after the other, up to the first failure.
RECURSIVE use_item(_, _)
use_item(g, items) ==
    IF items = <<>> THEN R(g, "ok", "", 0)
    ELSE LET key == Key_from(Head(items)) IN
         IF ~key.some THEN R(g, "err", "Item not found.", 0)
         ELSE LET r == game_use_item(g, key.val) IN
              IF r.res # "ok" THEN R(r.game, "err", r.msg, 0)
              ELSE use_item(r.game, Tail(items))

\* command::class.
command_class(g, name) ==
    IF ~is_home(g.location)
    THEN R(g, "err", "Class change is only allowed at home.", 0)
    ELSE IF name.some
    THEN LET class_name == to_lowercase(name.val)
             r == change_class(g.player, class_name)
         IN IF r.res # "ok" THEN R(g, "err", "Unknown class name.", 0)
            ELSE R([g EXCEPT !.player = r.c], "ok", "", 0)
    ELSE R(g, "ok", "", 0)

set_hardcore(g, on) == R([g EXCEPT !.hardcore = on], "ok", "", 0)

\* The loop of debug_command, for _ in 1..level: n is what is left of it.
RECURSIVE debug_levels(_, _)
debug_levels(c, n) ==
    IF n <= 0 THEN c
    ELSE debug_levels(add_experience(c, xp_for_next(c)), n - 1)

debug_command(g, level) ==
    LET g1 == game_reset(g)
        g2 == [g1 EXCEPT !.gold = 5000 * level]
    IN R([g2 EXCEPT !.player = debug_levels(@, level - 1)], "ok", "", 1)

(***************************************************************************)
(* Persistence.  The datafile module is not part of the sources at hand;   *)
(* by the specification it snapshots and restores the whole game verbatim. *)
(* The save file is None when it does not exist; otherwise it holds what   *)
(* was last written to it, the serialized game, or bytes that are no game. *)
(***************************************************************************)
Garbage == [garbage |-> TRUE]

\* datafile::load(): Ok(None) without a file, Ok(Some(game)) from a file
\* that holds a game, and an error from any other file.
datafile_load(file) ==
    IF ~file.some THEN [res |-> "ok", val |-> None]
    ELSE IF file.val = Garbage
    THEN [res |-> "err", msg |-> "Invalid save file."]
    ELSE [res |-> "ok", val |-> Some(file.val.json)]

datafile_save(g) == Some([json |-> g])

datafile_remove == None

\* save_game returns Ok; this is the file it leaves.
save_game(g) == datafile_save(g)

load_game(g, file) ==
    LET loaded_game == datafile_load(file) IN
    IF loaded_game.res = "err" THEN R(g, "err", loaded_game.msg, 0)
    ELSE IF loaded_game.val.some THEN R(loaded_game.val.val, "ok", "", 0)
    ELSE R(g, "err", "No saved game found.", 0)

unwrap_or(o, default) == IF o.some THEN o.val ELSE default

NoOp == [res |-> "na", msg |-> ""]

Op(r) == [res |-> r.res, msg |-> r.msg]

\* command::run.  ret is the game and the result, file the save file
\* afterwards, save the flag of Ok(save), which is read only when ret.res
\* is "ok", and op what the game operation under the command returned
\* ("na" when the command has none).  x holds the draws.
run(o, g, file, x) ==
    LET c == unwrap_or(o, [name |-> "stat", items |-> <<>>])
        ret ==
            CASE c.name = "stat" -> stat(g, c.items)
              [] c.name = "cd" ->
                     change_dir(g, c.dest, c.force, x.rnd, x.trng, x.rnd1, x.rnd2)
              [] c.name = "ls" -> inspect(g)
              [] c.name = "class" -> command_class(g, c.class_name)
              [] c.name = "battle" -> battle(g, x.rnd, x.trng)
              [] c.name = "pwd" -> R(g, "ok", "", 0)
              [] c.name = "reset" -> reset(g)
              [] c.name = "buy" -> shop(g, c.items)
              [] c.name = "use" -> use_item(g, c.items)
              [] c.name = "todo" -> R(g, "ok", "", 0)
              [] c.name = "save" -> R(g, "ok", "", 0)
              [] c.name = "load" -> load_game(g, file)
              [] c.name = "hardcore" -> set_hardcore(g, c.on)
              [] c.name = "attack" -> attack(g, x.d)
              [] c.name = "flee" -> flee(g, x.d)
              [] c.name = "bribe" -> bribe(g, x.d)
              [] c.name = "skills" -> skills(g)
              [] c.name = "learn" -> learn(g, c.skill)
              [] c.name = "use-skill" -> use_skill(g, c.skill, x.d)
              [] c.name = "bet" -> bet(g, c.amount, x.rnd)
              [] c.name = "brew" -> brew(g)
              [] c.name = "listen" -> listen(g, x.rnd)
              [] c.name = "idkfa" -> debug_command(g, c.level)
        op ==
            CASE c.name = "cd" ->
                     Op(change_dir_op(g, c.dest, c.force, x.rnd, x.trng,
                                      x.rnd1, x.rnd2))
              [] c.name = "attack" -> Op(game_battle_round(g, x.d))
              [] c.name = "flee" -> Op(game_player_flee(g, x.d))
              [] c.name = "bribe" -> Op(game_player_bribe(g, x.d))
              [] c.name = "use-skill" -> Op(game_use_skill(g, c.skill, x.d))
              [] OTHER -> NoOp
    IN [ret |-> ret,
        file |-> IF c.name = "save" THEN save_game(g) ELSE file,
        save |-> c.name # "load",
        op |-> op]

\* A faulty run_game: a failed command is not saved.
run_game_save_OkOnly(res, flag) == res = "ok" /\ flag

\* run_game: whether the game is saved once the command has returned.
run_game_save(res, flag) == IF res = "ok" THEN flag ELSE TRUE

(***************************************************************************)
(* The program as a state machine: run_game of src/src/main.rs, one run of *)
(* the program per command.  The game lives in the save file between two   *)
(* runs; location, player, gold and the rest are the game of the run in    *)
(* progress.                                                               *)
(***************************************************************************)
Game ==
    [location |-> location, player |-> player, gold |-> gold,
     in_combat |-> in_combat, in_encounter |-> in_encounter,
     hardcore |-> hardcore, tombstones |-> tombstones,
     inventory |-> inventory, quests |-> quests]

InitRest ==
    /\ gold = Game_new.gold
    /\ in_combat = Game_new.in_combat
    /\ in_encounter = Game_new.in_encounter
    /\ hardcore = Game_new.hardcore
    /\ tombstones = Game_new.tombstones
    /\ inventory = Game_new.inventory
    /\ quests = Game_new.quests
    /\ cmd = [name |-> "none"]
    /\ result = "none"
    /\ errmsg = ""
    /\ resets = 0
    /\ handled = [dg |-> FALSE, fa |-> FALSE]
    /\ events = <<>>
    /\ equips = <<>>
    /\ spawned = None
    /\ respawned = None
    /\ opres = NoOp
    /\ datafile = None
    /\ pc = "shell"
    /\ should_save = TRUE
    /\ budget = 0

Init ==
    /\ location = Game_new.location
    /\ player = Game_new.player
    /\ InitRest

\* The command lines.
GameLocs == {Loc(n, FALSE) : n \in 0..MaxDepth} \cup {Loc(MaxDepth, TRUE)}

Dests == {None} \cup {Some(l) : l \in GameLocs}

BetAmounts == {-100, 0, 100}

ItemLists == {<<>>, <<"potion">>, <<"potion", "potion">>, <<"sword">>}

Commands ==
    {[name |-> "stat", items |-> i] : i \in ItemLists}
    \cup {[name |-> "cd", dest |-> dest, force |-> f] :
             dest \in Dests, f \in BOOLEAN}
    \cup {[name |-> "ls"]}
    \cup {[name |-> "buy", items |-> i] : i \in ItemLists}
    \cup {[name |-> "use", items |-> i] : i \in ItemLists}
    \cup {[name |-> "todo"]}
    \cup {[name |-> "reset", hard |-> h] : h \in BOOLEAN}
    \cup {[name |-> "class", class_name |-> n] :
             n \in {None,
                    Some(<<"g", "u", "a", "r", "d", "i", "a", "n">>),
                    Some(<<"G", "u", "A", "r", "D", "i", "A", "n">>),
                    Some(<<"W", "A", "R", "R", "I", "O", "R">>),
                    Some(<<"B", "o", "g", "u", "s">>)}}
    \cup {[name |-> "pwd"]}
    \cup {[name |-> "attack"], [name |-> "flee"], [name |-> "bribe"]}
    \cup {[name |-> "skills"]}
    \cup {[name |-> "learn", skill |-> n] : n \in Skills \cup {"unknown"}}
    \cup {[name |-> "use-skill", skill |-> n] : n \in Skills \cup {"unknown"}}
    \cup {[name |-> "bet", amount |-> a] : a \in BetAmounts}
    \cup {[name |-> "brew"], [name |-> "listen"], [name |-> "battle"]}
    \cup {[name |-> "save"], [name |-> "load"]}
    \cup {[name |-> "hardcore", on |-> b] : b \in BOOLEAN}
    \cup {[name |-> "idkfa", level |-> l] : l \in {-1, 0, 1, 2}}

\* The draws.  NoRnd, NoTrng and NoDraws stand for draws that are not taken;
\* a draw the command does not read is fixed.
NoRnd == [appear |-> FALSE, jitter |-> 0, range |-> 0]

NoTrng == [shadow |-> FALSE, dev |-> FALSE, group |-> "wolf"]

\* The draws of one combat verb: the player's damage, the enemy's damage,
\* the flee or bribe roll, and whether the enemy's hit sets the player on
\* fire.
CombatDraws ==
    {d \in [pdmg : {1, 3}, edmg : {1, 2}, roll : BOOLEAN, burn : BOOLEAN] :
        (d.edmg = 2 => ~d.burn)}

AttackDraws == {d \in CombatDraws : ~d.roll}

NoDraws ==
    [rnd |-> NoRnd, trng |-> NoTrng, rnd1 |-> NoRnd, rnd2 |-> NoRnd,
     d |-> [pdmg |-> 1, edmg |-> 1, roll |-> FALSE, burn |-> FALSE]]

\* The draws of the enemy spawner: the roll and the level jitter of the
\* Randomizer and the three draws of thread_rng; none but the roll is taken
\* when the roll fails.
SpawnRnd == {r \in RndDraws : r.range = 0}

SpawnDraws ==
    {x \in [rnd : SpawnRnd, trng : TrngDraws] :
        ~x.rnd.appear => x.rnd = NoRnd /\ x.trng = NoTrng}

\* The draws of range(n) alone.
RangeRnd == {r \in RndDraws : r.appear /\ r.jitter = 0}

\* The draws of one walk: the enemy spawner's, then the NPC spawner's when
\* no enemy appeared.
WalkDraws ==
    {[NoDraws EXCEPT !.rnd = s.rnd, !.trng = s.trng] :
        s \in {s \in SpawnDraws : s.rnd.appear}}
    \cup {[NoDraws EXCEPT !.rnd1 = n.rnd1, !.rnd2 = n.rnd2] :
             n \in {n \in [rnd1 : {r \in RndDraws : r.range = 0 /\ r.jitter = 0},
                           rnd2 : RangeRnd] :
                       ~n.rnd1.appear => n.rnd2.range = 0}}

Draws(c) ==
    CASE c.name = "cd" -> IF c.force THEN {NoDraws} ELSE WalkDraws
      [] c.name = "battle" ->
             {[NoDraws EXCEPT !.rnd = s.rnd, !.trng = s.trng] : s \in SpawnDraws}
      [] c.name = "attack" -> {[NoDraws EXCEPT !.d = d] : d \in AttackDraws}
      [] c.name \in {"flee", "bribe"} ->
             {[NoDraws EXCEPT !.d = d] :
                 d \in {d \in CombatDraws :
                          d.pdmg = 1 /\ (d.roll => d.edmg = 1 /\ ~d.burn)}}
      [] c.name = "use-skill" ->
             IF c.skill \in Skills
             THEN {[NoDraws EXCEPT !.d = d] : d \in AttackDraws}
             ELSE {NoDraws}
      [] c.name \in {"bet", "listen"} ->
             {[NoDraws EXCEPT !.rnd = r] : r \in RangeRnd}
      [] OTHER -> {NoDraws}

\* The game of the run becomes g.
SetGame(g) ==
    /\ location' = g.location
    /\ player' = g.player
    /\ gold' = g.gold
    /\ in_combat' = g.in_combat
    /\ in_encounter' = g.in_encounter
    /\ hardcore' = g.hardcore
    /\ tombstones' = g.tombstones
    /\ inventory' = g.inventory
    /\ quests' = g.quests

\* The command c has left the game as r.game, whatever it holds; op is
\* what the game operation under it returned.
Commit(c, r, op) ==
    /\ SetGame(r.game)
    /\ cmd' = c
    /\ result' = r.res
    /\ errmsg' = r.msg
    /\ resets' = r.resets
    /\ opres' = op
    /\ UNCHANGED <<handled, events, equips, spawned, respawned>>

\* run_game, lines 46 to 55: the command line is parsed, and reset --hard
\* removes the save file before anything is loaded.
RunGameRemove ==
    /\ pc = "shell"
    /\ budget > 0
    /\ \E o \in {None} \cup {Some(c) : c \in Commands} :
        /\ cmd' = unwrap_or(o, [name |-> "stat", items |-> <<>>])
        /\ datafile' = IF o.some /\ o.val.name = "reset" /\ o.val.hard
                       THEN datafile_remove
                       ELSE datafile
    /\ result' = "none"
    /\ errmsg' = ""
    /\ resets' = 0
    /\ opres' = NoOp
    /\ should_save' = TRUE
    /\ budget' = budget - 1
    /\ pc' = "removed"
    /\ UNCHANGED <<location, player, gold, in_combat, in_encounter, hardcore,
                   tombstones, inventory, quests, handled, events, equips,
                   spawned, respawned>>

\* run_game, line 57: the game of the save file, a new game when there is
\* none; a file that holds no game ends the run with the error, before the
\* command and before any save.
RunGameLoad ==
    /\ pc = "removed"
    /\ LET loaded == datafile_load(datafile) IN
       IF loaded.res = "err"
       THEN /\ result' = "err"
            /\ errmsg' = loaded.msg
            /\ pc' = "shell"
            /\ UNCHANGED <<location, player, gold, in_combat, in_encounter,
                           hardcore, tombstones, inventory, quests>>
       ELSE /\ SetGame(unwrap_or(loaded.val, Game_new))
            /\ pc' = "loaded"
            /\ UNCHANGED <<result, errmsg>>
    /\ UNCHANGED <<cmd, resets, opres, should_save, budget, datafile, handled,
                   events, equips, spawned, respawned>>

\* run_game, line 59: command::run on the loaded game, for the command n.
Ran(n) ==
    /\ pc = "loaded"
    /\ cmd.name = n
    /\ \E x \in Draws(cmd) :
        LET r == run(Some(cmd), Game, datafile, x) IN
        /\ Commit(cmd, r.ret, r.op)
        /\ datafile' = r.file
        /\ should_save' = r.save
    /\ pc' = "ran"
    /\ UNCHANGED budget

Stat == Ran("stat")

ChangeDir == Ran("cd")

Inspect == Ran("ls")

Buy == Ran("buy")

Use == Ran("use")

Todo == Ran("todo")

Reset == Ran("reset")

ClassCmd == Ran("class")

PrintWorkDir == Ran("pwd")

Attack == Ran("attack")

Flee == Ran("flee")

Bribe == Ran("bribe")

SkillsCmd == Ran("skills")

Learn == Ran("learn")

UseSkill == Ran("use-skill")

Bet == Ran("bet")

Brew == Ran("brew")

Listen == Ran("listen")

Battle == Ran("battle")

Save == Ran("save")

Load == Ran("load")

Hardcore == Ran("hardcore")

Idkfa == Ran("idkfa")

\* run_game, lines 61 to 70: the game is saved unless the command said not
\* to; a failed command is saved too.
RunGameSave ==
    /\ pc = "ran"
    /\ datafile' = IF run_game_save(result, should_save)
                   THEN datafile_save(Game)
                   ELSE datafile
    /\ pc' = "shell"
    /\ UNCHANGED <<location, player, gold, in_combat, in_encounter, hardcore,
                   tombstones, inventory, quests, cmd, result, errmsg, resets,
                   handled, events, equips, spawned, respawned, opres,
                   should_save, budget>>

NextGame ==
    \/ RunGameRemove
    \/ RunGameLoad
    \/ Stat
    \/ ChangeDir
    \/ Inspect
    \/ Buy
    \/ Use
    \/ Todo
    \/ Reset
    \/ ClassCmd
    \/ PrintWorkDir
    \/ Attack
    \/ Flee
    \/ Bribe
    \/ SkillsCmd
    \/ Learn
    \/ UseSkill
    \/ Bet
    \/ Brew
    \/ Listen
    \/ Battle
    \/ Save
    \/ Load
    \/ Hardcore
    \/ Idkfa
    \/ RunGameSave

\* The program is run n times, starting with no save file, with one that
\* holds no game, or with the saved game of one of games.
InitGame(games, n) ==
    /\ location = Game_new.location
    /\ player = Game_new.player
    /\ gold = Game_new.gold
    /\ in_combat = Game_new.in_combat
    /\ in_encounter = Game_new.in_encounter
    /\ hardcore = Game_new.hardcore
    /\ tombstones = Game_new.tombstones
    /\ inventory = Game_new.inventory
    /\ quests = Game_new.quests
    /\ cmd = [name |-> "none"]
    /\ result = "none"
    /\ errmsg = ""
    /\ resets = 0
    /\ handled = [dg |-> FALSE, fa |-> FALSE]
    /\ events = <<>>
    /\ equips = <<>>
    /\ spawned = None
    /\ respawned = None
    /\ opres = NoOp
    /\ datafile \in {None, Some(Garbage)} \cup {datafile_save(g) : g \in games}
    /\ pc = "shell"
    /\ should_save = TRUE
    /\ budget = n

(***************************************************************************)
(* The save files the runs start from: games the program writes.           *)
(***************************************************************************)
\* The player of a game under way: level 1, wounded or not, burning or
\* not, with or without the skill.
Hero(hp, status, sk) ==
    [Character_player EXCEPT !.current_hp = hp, !.status_effect = status,
                             !.skills = sk]

Heroes ==
    {Hero(hp, st, {}) : hp \in 1..max_hp(Character_player),
                        st \in {"None", "Burn"}}
    \cup {Hero(max_hp(Character_player), "None", Skills)}

\* Gold and experience: none, or those of n battles won.
Purse(n) == [gold |-> n * BattleGold, xp |-> n * BattleXp]

\* The tombstones and the tombstone quest: no death yet, one death with
\* the gold of one battle, and that tombstone collected.
NoGrave == [tombstones |-> <<>>, tomb |-> FALSE]

Npcs == {"Gambler", "Witch", "GhostlyMaiden"}

PlayedGame(loc, hero, purse, enemy, npc, grave, potions) ==
    [Game_new EXCEPT
        !.location = loc,
        !.player = [hero EXCEPT !.xp = purse.xp],
        !.gold = purse.gold,
        !.in_combat = enemy,
        !.in_encounter = npc,
        !.tombstones = grave.tombstones,
        !.quests = [@ EXCEPT !.tomb = grave.tomb],
        !.inventory = potions]

\* The games of combat and death: in a fight, at home (after battle) or
\* away, with any enemy the spawner gives the player there; between two
\* fights, with no death yet, with the tombstone of a death that took the
\* gold of one battle, or with that tombstone collected; and beside an NPC,
\* away from home.
CombatGames ==
    UNION {{PlayedGame(loc, h, Purse(n), spawn(h, loc, Quests_new, x.rnd, x.trng),
                       "None", NoGrave, 0) :
               h \in Heroes, n \in 0..MaxWins,
               x \in {x \in SpawnDraws : x.rnd.appear}} :
           loc \in GameLocs}
    \cup {PlayedGame(loc, h, Purse(n), None, "None", gr, 0) :
             loc \in GameLocs, h \in Heroes, n \in 0..MaxWins,
             gr \in {NoGrave,
                     [tombstones |-> <<[loc |-> Loc(MaxDepth, FALSE),
                                        gold |-> BattleGold]>>,
                      tomb |-> FALSE],
                     [tombstones |-> <<>>, tomb |-> TRUE]}}
    \cup {PlayedGame(loc, h, Purse(n), None, npc, NoGrave, 0) :
             loc \in GameLocs \ {Home}, h \in Heroes, n \in 0..MaxWins,
             npc \in Npcs}

\* Games away from home, with an NPC or without, and games at home, where
\* the shop is.
NpcGames ==
    {PlayedGame(Loc(MaxDepth, FALSE), Hero(hp, "None", {}), Purse(n), None,
                npc, NoGrave, potions) :
        hp \in 1..max_hp(Character_player), n \in 0..MaxSales,
        npc \in Npcs \cup {"None"}, potions \in 0..MaxPotions}
    \cup {PlayedGame(Home, Hero(hp, "None", {}), Purse(n), None, "None",
                     NoGrave, potions) :
             hp \in 1..max_hp(Character_player), n \in 0..MaxSales,
             potions \in 0..MaxPotions}

\* Combat and death.
SpecCombat == InitGame(CombatGames, 1) /\ [][NextGame]_vars

\* The NPC encounters, the shop and the save file.
SpecNpc == InitGame(NpcGames, 1) /\ [][NextGame]_vars

\* The first commands of a game: the program is run MaxCmds times, from no
\* save file or from one that holds no game.
SpecPlay == InitGame({}, MaxCmds) /\ [][NextGame]_vars

(***************************************************************************)
(* The quests on their own: any event, in any order, handed to handle of   *)
(* both quests.                                                            *)
(***************************************************************************)
QuestHandle ==
    \E e \in Events :
        /\ Len(events) < MaxEvents
        /\ LET dg == DefeatGuardian_handle(quests.dg, e)
               fa == FindAmulet_handle(quests.fa, e)
           IN /\ quests' = [quests EXCEPT !.dg = dg.self, !.fa = fa.self]
              /\ handled' = [dg |-> dg.ret, fa |-> fa.ret]
        /\ events' = Append(events, e)
        /\ cmd' = [name |-> "handle"]
        /\ UNCHANGED <<hardcore, budget, datafile, pc, should_save, location, player, gold, in_combat, in_encounter,
                       tombstones, inventory, result, errmsg, resets, equips,
                       spawned, respawned, opres>>

SpecQuest == Init /\ [][QuestHandle]_vars

(***************************************************************************)
(* spawn_random on its own: the player level and the distance are drawn at *)
(* the start (level 0, which the spec's examples use, included), the       *)
(* family by thread_rng at each call.                                      *)
(***************************************************************************)
InitLevel ==
    \E l \in 0..MaxLevel, d \in 0..MaxDist :
        /\ player = [Character_player EXCEPT !.level = l]
        /\ location = Loc(d, FALSE)
        /\ InitRest

SpawnRandom ==
    \E trng \in {t \in TrngDraws : ~t.shadow /\ ~t.dev} :
        /\ LET r == spawn_random(player, distance_len(location), trng) IN
           spawned' = Some([class |-> r[1], level |-> r[2]])
        /\ cmd' = [name |-> "spawn_random", group |-> trng.group]
        /\ UNCHANGED <<hardcore, budget, datafile, pc, should_save, location, player, gold, in_combat, in_encounter,
                       tombstones, inventory, quests, result, errmsg, resets,
                       handled, events, equips, respawned, opres>>

SpecLevel == InitLevel /\ [][SpawnRandom]_vars

(***************************************************************************)
(* The rings and the spawner: equip_ring calls and spawn calls one step    *)
(* away from home, where the test of the spawner runs them.                *)
(***************************************************************************)
InitRing ==
    /\ location = Loc(1, FALSE)
    /\ player = Game_new.player
    /\ InitRest

EquipRing ==
    \E ring \in Rings :
        /\ Len(equips) < MaxEquips
        /\ player' = equip_ring(player, ring)
        /\ equips' = Append(equips, ring)
        /\ cmd' = [name |-> "equip_ring", ring |-> ring]
        /\ UNCHANGED <<hardcore, budget, datafile, pc, should_save, location, gold, in_combat, in_encounter, tombstones,
                       inventory, quests, result, errmsg, resets, handled,
                       events, spawned, respawned, opres>>

Spawn ==
    \E rnd \in {r \in RndDraws : r.range = 0},
       trng \in {t \in TrngDraws : ~t.shadow /\ ~t.dev} :
        /\ spawned' = spawn(player, location, quests, rnd, trng)
        /\ cmd' = [name |-> "spawn", appear |-> rnd.appear]
        /\ UNCHANGED <<hardcore, budget, datafile, pc, should_save, location, player, gold, in_combat, in_encounter,
                       tombstones, inventory, quests, result, errmsg, resets,
                       handled, events, equips, respawned, opres>>

SpecRing == InitRing /\ [][EquipRing \/ Spawn]_vars

(***************************************************************************)
(* The enemy spawner on its own: spawn, spawn_gorthaur and two spawn calls *)
(* in a row, from every game state of a small grid: the player's level,    *)
(* class and rings, the location (home, near, at and beyond the boss       *)
(* distance, at the final-boss distance, in or out of the data directory)  *)
(* and the state of the guardian quest (open, completed, not listed).      *)
(* The spawner reads the game and does not change it, so a behaviour makes *)
(* one call from its initial state: a later call would start from the same *)
(* game.                                                                   *)
(***************************************************************************)
\* The home directory is not the data directory.
SpawnLocs ==
    {Loc(n, r) : n \in {0, 1, 10, 11, 100}, r \in BOOLEAN} \ {Loc(0, TRUE)}

\* The ring slots equip_ring can produce from the empty slots.
RingSlots ==
    {s \in [left : Rings \cup {"None"}, right : Rings \cup {"None"}] :
        s.left = "None" => s.right = "None"}

SpawnQuests ==
    {q \in [dg : BOOLEAN, fa : {FALSE}, dg_listed : BOOLEAN, tomb : {FALSE}] :
        q.dg => q.dg_listed}

InitSpawn ==
    \E l \in {1, 10}, i \in 1..Len(PlayerClasses), s \in RingSlots,
       loc \in SpawnLocs, q \in SpawnQuests :
        /\ player = [Character_new(PlayerClasses[i], l) EXCEPT
                        !.left_ring = s.left, !.right_ring = s.right]
        /\ location = loc
        /\ gold = Game_new.gold
        /\ in_combat = Game_new.in_combat
        /\ in_encounter = Game_new.in_encounter
        /\ hardcore = Game_new.hardcore
        /\ tombstones = Game_new.tombstones
        /\ inventory = Game_new.inventory
        /\ quests = q
        /\ cmd = [name |-> "none"]
        /\ result = "none"
        /\ errmsg = ""
        /\ resets = 0
        /\ handled = [dg |-> FALSE, fa |-> FALSE]
        /\ events = <<>>
        /\ equips = <<>>
        /\ spawned = None
        /\ respawned = None
        /\ opres = NoOp
    /\ datafile = None
    /\ pc = "shell"
    /\ should_save = TRUE
    /\ budget = 0

\* The draws spawn reads from the Randomizer: range is not one of them.
SpawnAtRnd == {r \in RndDraws : r.range = 0}

\* No spawner call has been made yet.
NotCalled == cmd.name = "none"

SpawnAt ==
    \E rnd \in SpawnAtRnd, trng \in TrngDraws :
        /\ NotCalled
        /\ spawned' = spawn(player, location, quests, rnd, trng)
        /\ cmd' = [name |-> "spawn_at", rnd |-> rnd, trng |-> trng]
        /\ UNCHANGED <<hardcore, budget, datafile, pc, should_save, location, player, gold, in_combat, in_encounter,
                       tombstones, inventory, quests, result, errmsg, resets,
                       handled, events, equips, respawned, opres>>

\* Two calls of spawn from the same game state with the same Randomizer;
\* what rand::thread_rng() gives is drawn afresh at each call.
SpawnTwice ==
    \E rnd \in SpawnAtRnd, trng1 \in TrngDraws, trng2 \in TrngDraws :
        /\ NotCalled
        /\ spawned' = spawn(player, location, quests, rnd, trng1)
        /\ respawned' = spawn(player, location, quests, rnd, trng2)
        /\ cmd' = [name |-> "spawn_twice", rnd |-> rnd]
        /\ UNCHANGED <<hardcore, budget, datafile, pc, should_save, location, player, gold, in_combat, in_encounter,
                       tombstones, inventory, quests, result, errmsg, resets,
                       handled, events, equips, opres>>

SpawnGorthaur ==
    /\ NotCalled
    /\ LET r == spawn_gorthaur(player, location) IN
       spawned' = IF r.some
                  THEN Some([class |-> r.val[1], level |-> r.val[2]])
                  ELSE None
    /\ cmd' = [name |-> "spawn_gorthaur"]
    /\ UNCHANGED <<hardcore, budget, datafile, pc, should_save, location, player, gold, in_combat, in_encounter,
                   tombstones, inventory, quests, result, errmsg, resets,
                   handled, events, equips, respawned, opres>>

SpecSpawn == InitSpawn /\ [][SpawnAt \/ SpawnTwice \/ SpawnGorthaur]_vars

(***************************************************************************)
(* The guardian quest and the spawner together: events handed to the       *)
(* quests and spawn calls, in any order, near and beyond the boss          *)
(* distance.                                                               *)
(***************************************************************************)
InitBoss ==
    \E n \in {1, 11, 100} :
        /\ location = Loc(n, FALSE)
        /\ player = Game_new.player
        /\ InitRest

SpecBoss == InitBoss /\ [][QuestHandle \/ Spawn]_vars

(***************************************************************************)
(* The bet on its own: a game with the Gambler in the encounter slot and   *)
(* any amount of gold from 0 to MaxStake, and one Command::Bet of any      *)
(* amount, negative ones included (amount: i32).  The gold it leaves is    *)
(* not bounded from below here.                                            *)
(***************************************************************************)
MaxStake == 5

InitBet ==
    /\ location = Loc(1, FALSE)
    /\ player = Game_new.player
    /\ gold \in 0..MaxStake
    /\ in_combat = None
    /\ in_encounter = "Gambler"
    /\ hardcore = Game_new.hardcore
    /\ tombstones = Game_new.tombstones
    /\ inventory = Game_new.inventory
    /\ quests = Game_new.quests
    /\ cmd = [name |-> "none"]
    /\ result = "none"
    /\ errmsg = ""
    /\ resets = 0
    /\ handled = [dg |-> FALSE, fa |-> FALSE]
    /\ events = <<>>
    /\ equips = <<>>
    /\ spawned = None
    /\ respawned = None
    /\ opres = NoOp
    /\ datafile = None
    /\ pc = "shell"
    /\ should_save = TRUE
    /\ budget = 0

BetStake ==
    \E amount \in (-MaxStake)..MaxStake, rnd \in RangeRnd :
        /\ cmd.name = "none"
        /\ Commit([name |-> "bet", amount |-> amount, gold |-> gold,
                   flip |-> range(rnd, 2)],
                  bet(Game, amount, rnd), NoOp)
        /\ UNCHANGED <<datafile, pc, should_save, budget>>

SpecBet == InitBet /\ [][BetStake]_vars

(***************************************************************************)
(* The claims.                                                             *)
(***************************************************************************)
GameUnchanged ==
    UNCHANGED <<location, player, gold, in_combat, in_encounter, hardcore,
                tombstones, inventory, quests>>

\* The step is command::run on the loaded game: the command is cmd, the
\* unprimed variables are the game before it, the primed ones the game and
\* the result after it.
Running == pc = "loaded"

IsNpcVerb(c) == c.name \in {"bet", "brew", "listen"}

Matching(c, enc) ==
    \/ c.name = "bet" /\ enc = "Gambler"
    \/ c.name = "brew" /\ enc = "Witch"
    \/ c.name = "listen" /\ enc = "GhostlyMaiden"

\* C1: the combat slot and the NPC-encounter slot are never both occupied.
\* The Battle command fills the combat slot whatever the NPC slot holds, so
\* this fails.
SlotsExclusive == ~(in_combat.some /\ in_encounter # "None")

\* C2 as claimed: a bet, brew or listen issued while its NPC is there always
\* leaves the encounter slot empty.  A bet above the player's gold does not.
NpcVerbAlwaysClears ==
    [][Running /\ Matching(cmd, in_encounter) => in_encounter' = "None"]_vars

\* C2 as amended: a bet, brew or listen issued while its NPC is there
\* succeeds and leaves the encounter slot empty, except a bet above the
\* player's gold, which fails and leaves the whole game as it was, the
\* Gambler included.
NpcVerbClearsUnlessOverbet ==
    [][Running /\ Matching(cmd, in_encounter) =>
         IF cmd.name = "bet" /\ cmd.amount > gold
         THEN result' = "err" /\ GameUnchanged
         ELSE result' = "ok" /\ in_encounter' = "None"]_vars

OverbetKeepsGambler ==
    /\ cmd.name = "bet"
    /\ cmd.amount > gold
    /\ result = "err"
    /\ in_encounter = "Gambler"

\* C3: an NPC verb issued without its NPC (no encounter, or another NPC)
\* fails and leaves the game as it was: slot, gold, inventory and the rest.
MismatchedVerbFails ==
    [][Running /\ IsNpcVerb(cmd) /\ ~Matching(cmd, in_encounter) =>
         result' = "err" /\ GameUnchanged]_vars

MismatchedVerbWitness ==
    /\ cmd.name = "brew"
    /\ result = "err"
    /\ in_encounter = "Gambler"

\* C4: for attack, flee, bribe, use-skill and cd, a Dead from the game
\* operation makes the command reset the game exactly once and fail; any
\* other error is passed on and no reset is run.
DeadResetsOnce ==
    cmd.name \in {"attack", "flee", "bribe", "use-skill", "cd"} =>
        /\ opres.res = "dead" => resets = 1 /\ result = "err"
        /\ opres.res = "err" =>
               resets = 0 /\ result = "err" /\ errmsg = opres.msg

DeadResetsOnceWitness ==
    /\ cmd.name = "flee"
    /\ opres.res = "dead"
    /\ resets = 1
    /\ result = "err"

\* Where the player of the step's command died: the destination of a cd,
\* the current location for the combat verbs.
DeathLoc ==
    IF cmd.name = "cd" THEN unwrap_or(cmd.dest, Home) ELSE location

\* C5: a death adds exactly one tombstone, at the place of the death and
\* with the gold carried before it, leaves the player at full health with
\* no gold and no experience, and the command fails.
DeathLedger ==
    [][Running /\ opres'.res = "dead" =>
         /\ tombstones' = Append(tombstones, [loc |-> DeathLoc, gold |-> gold])
         /\ player'.current_hp = max_hp(player')
         /\ gold' = 0
         /\ player'.xp = 0
         /\ result' = "err"]_vars

DeathLedgerWitness ==
    /\ opres.res = "dead"
    /\ tombstones # <<>>
    /\ tombstones[Len(tombstones)].gold = 100
    /\ gold = 0
    /\ player.xp = 0
    /\ player.current_hp = max_hp(player)
    /\ result = "err"

\* C6: inspect at a location with a tombstone removes it and adds its gold
\* and the reward of the tombstone quest (200, once) to the player's gold:
\* 100 lost gold come back as 300; inspect where no tombstone is (a second
\* inspect) changes neither the gold nor the tombstones.
InspectCollects ==
    [][Running /\ cmd.name = "ls" =>
         LET found == TombsAt(tombstones, location) IN
         IF found # <<>>
         THEN /\ TombsAt(tombstones', location) = <<>>
              /\ Len(tombstones') = Len(tombstones) - Len(found)
              /\ gold' = gold + SumGold(found)
                           + (IF quests.tomb THEN 0 ELSE 200)
              /\ (gold = 0 /\ SumGold(found) = 100 /\ ~quests.tomb
                    => gold' = 300)
         ELSE gold' = gold /\ tombstones' = tombstones]_vars

InspectCollectsWitness ==
    /\ cmd.name = "ls"
    /\ gold = 300
    /\ quests.tomb
    /\ tombstones = <<>>

\* The health a cd to dest ticks on: the player's, or the max health when
\* dest is home, where the player is restored on arriving.
ArrivalHp(dest) ==
    IF is_home(dest) THEN max_hp(player) ELSE player.current_hp

\* C7: a forced cd, to any destination, spawns nothing and still ticks the
\* player's burn there; a lethal tick runs the death pipeline (tombstone at
\* the destination, no gold, no experience, full health) and the cd fails.
ForcedCdTicks ==
    [][(/\ Running
        /\ cmd.name = "cd"
        /\ cmd.force
        /\ cmd.dest.some
        /\ player.status_effect = "Burn") =>
         IF ArrivalHp(cmd.dest.val) <= BurnDamage
         THEN /\ tombstones' = Append(tombstones, [loc |-> cmd.dest.val,
                                                   gold |-> gold])
              /\ gold' = 0
              /\ player'.xp = 0
              /\ player'.current_hp = max_hp(player')
              /\ result' = "err"
         ELSE /\ player'.current_hp = ArrivalHp(cmd.dest.val) - BurnDamage
              /\ player'.status_effect = "Burn"
              /\ location' = cmd.dest.val
              /\ in_combat' = in_combat
              /\ in_encounter' = in_encounter
              /\ result' = "ok"]_vars

\* A forced cd on which the burn kills a player who carried gold.
ForcedCdTicksWitness ==
    /\ pc = "ran"
    /\ datafile = datafile_save(
           PlayedGame(Home, Hero(1, "Burn", {}), Purse(1), None, "None",
                      NoGrave, 0))
    /\ cmd = [name |-> "cd", dest |-> Some(Loc(MaxDepth, FALSE)), force |-> TRUE]
    /\ opres.res = "dead"
    /\ result = "err"
    /\ tombstones = <<[loc |-> Loc(MaxDepth, FALSE), gold |-> BattleGold]>>
    /\ gold = 0
    /\ ~in_combat.some

\* C8: once a quest is finished, and once its handle has returned true, it
\* stays so after every later event.
QuestMonotone ==
    [][/\ quests.dg => quests'.dg
       /\ quests.fa => quests'.fa
       /\ handled.dg => handled'.dg
       /\ handled.fa => handled'.fa]_vars

QuestMonotoneWitness ==
    /\ Len(events) >= 2
    /\ events[Len(events)] = [kind |-> "BattleWon", enemy |-> "rat"]
    /\ quests.dg
    /\ handled.dg

\* C9: spawn_random returns the level max(L/10 + D - 1, 1), whatever the
\* family drawn; it is at least 1, and the four examples hold.
LevelFormula ==
    cmd.name = "spawn_random" =>
        LET L == player.level
            D == distance_len(location)
            base == (L \div 10) + D - 1
            lv == spawned.val.level
        IN /\ lv >= 1
           /\ base >= 1 => lv = base
           /\ base < 1 => lv = 1
           /\ L = 0 /\ D = 1 => lv = 1
           /\ L = 0 /\ D = 10 => lv = 9
           /\ L = 10 /\ D = 10 => lv = 10
           /\ L = 10 /\ D = 2 => lv = 2

LevelFormulaWitness ==
    /\ cmd.name = "spawn_random"
    /\ player.level = 10
    /\ distance_len(location) = 10
    /\ spawned.val.level = 10

\* The last two rings passed to equip_ring.
LastTwo ==
    {equips[i] : i \in {j \in 1..Len(equips) : j >= Len(equips) - 1}}

\* C10: enemies are evaded exactly when Evade is one of the last two rings
\* equipped; then spawn returns no enemy, and otherwise it returns one
\* whenever the appearance roll passes.
RingFifo ==
    /\ enemies_evaded(player) <=> "Evade" \in LastTwo
    /\ cmd.name = "spawn" /\ "Evade" \in LastTwo => ~spawned.some
    /\ cmd.name = "spawn" /\ "Evade" \notin LastTwo /\ cmd.appear => spawned.some

RingFifoWitness ==
    /\ equips = <<"Evade", "Void", "Void">>
    /\ cmd.name = "spawn"
    /\ spawned.some

\* The guardian quest is listed and not completed.
GuardianUnlocked == quests.dg_listed /\ ~quests.dg

WearsRuling == player.left_ring = "Ruling" \/ player.right_ring = "Ruling"

\* C11: an enemy spawned while the guardian quest is open and the distance
\* length is above 10 is the guardian, at the player's level + 5 before the
\* jitter, whatever else would match (the final boss included); at distance
\* length 10 or less, or with the quest completed or not listed, the enemy
\* is never the guardian.
BossOverrides ==
    cmd.name = "spawn_at" /\ spawned.some =>
        IF GuardianUnlocked /\ distance_len(location) > 10
        THEN /\ spawned.val.class.name = "guardian"
             /\ spawned.val.class = player_by_name("guardian").val
             /\ spawned.val.level = Max(1, player.level + 5 + cmd.rnd.jitter)
        ELSE spawned.val.class.name # "guardian"

BossOverridesWitness ==
    /\ cmd.name = "spawn_at"
    /\ GuardianUnlocked
    /\ WearsRuling
    /\ distance_len(location) = 100
    /\ spawned.some
    /\ spawned.val.class.name = "guardian"
    /\ spawned.val.level = player.level + 5

\* spawn_gorthaur matches exactly with the Ruling ring in a slot at distance
\* length 100 or more, and gives a Legendary class at the player's level.
GorthaurWhenAndTier ==
    /\ spawned.some <=> WearsRuling /\ distance_len(location) >= 100
    /\ spawned.some =>
           /\ spawned.val.class.category = "Legendary"
           /\ spawned.val.level = player.level

\* C12 as claimed: the final boss is produced exactly with the Ruling ring
\* in a slot at distance length 100 or more, and is a Legendary copy of the
\* first player class at the player's level with base health, base strength
\* and base speed each doubled.
GorthaurDoublesAll ==
    cmd.name = "spawn_gorthaur" =>
        /\ GorthaurWhenAndTier
        /\ spawned.some =>
               /\ spawned.val.class.hp[1] = 2 * PlayerClasses[1].hp[1]
               /\ spawned.val.class.strength[1] = 2 * PlayerClasses[1].strength[1]
               /\ spawned.val.class.speed[1] = 2 * PlayerClasses[1].speed[1]

\* C12 as amended: the same, with base health and base strength doubled and
\* the speed left as the catalog has it.
GorthaurDoublesHpStrength ==
    cmd.name = "spawn_gorthaur" =>
        /\ GorthaurWhenAndTier
        /\ spawned.some =>
               /\ spawned.val.class.hp[1] = 2 * PlayerClasses[1].hp[1]
               /\ spawned.val.class.strength[1] = 2 * PlayerClasses[1].strength[1]
               /\ spawned.val.class.speed = PlayerClasses[1].speed
               /\ spawned.val.class.hp[2] = PlayerClasses[1].hp[2]
               /\ spawned.val.class.strength[2] = PlayerClasses[1].strength[2]

GorthaurWitness ==
    /\ cmd.name = "spawn_gorthaur"
    /\ player.right_ring = "Ruling"
    /\ player.left_ring # "Ruling"
    /\ distance_len(location) = 100
    /\ spawned.some
    /\ spawned.val.class.name = "gorthaur"
    /\ spawned.val.class.hp[1] = 4
    /\ spawned.val.class.speed[1] = 2

\* The step is an attack that defeats the enemy: it is issued in combat,
\* succeeds and leaves the combat slot empty.
AttackWins ==
    /\ Running
    /\ cmd.name = "attack"
    /\ in_combat.some
    /\ opres'.res = "ok"
    /\ ~in_combat'.some

\* C13: an attack that defeats the enemy hands a BattleWon event for it to
\* the quests, leaves the player with more experience and more gold than
\* before, and empties the combat slot so that the game is Idle, with no
\* encounter of either kind.  An NPC encounter that was active beside the
\* combat survives the victory, so this fails.
AttackWinIdle ==
    [][AttackWins =>
         /\ quests' = quests_handle(quests,
                [kind |-> "BattleWon", enemy |-> in_combat.val.class.name])
         /\ player'.xp > player.xp
         /\ gold' > gold
         /\ ~in_combat'.some
         /\ in_encounter' = "None"]_vars

\* The part of C13 apart from the NPC slot: the event, the rewards and the
\* empty combat slot.
AttackWinRewards ==
    [][AttackWins =>
         /\ quests' = quests_handle(quests,
                [kind |-> "BattleWon", enemy |-> in_combat.val.class.name])
         /\ player'.xp > player.xp
         /\ gold' > gold
         /\ ~in_combat'.some
         /\ in_encounter' = in_encounter]_vars

\* C14: when the game operation under a command has ended in the player's
\* death (by attack, flee, bribe, skill or status tick), the command returns
\* with both the combat slot and the NPC-encounter slot empty.
NoEncounterAfterDeath ==
    opres.res = "dead" => ~in_combat.some /\ in_encounter = "None"

NoEncounterAfterDeathWitness ==
    /\ pc = "ran"
    /\ datafile = datafile_save(
           PlayedGame(Loc(MaxDepth, FALSE), Hero(1, "Burn", {}), Purse(1),
                      None, "Witch", NoGrave, 0))
    /\ cmd.name = "cd"
    /\ opres.res = "dead"
    /\ resets = 1
    /\ tombstones # <<>>
    /\ ~in_combat.some
    /\ in_encounter = "None"

ArrivedHome ==
    /\ cmd.name = "cd"
    /\ result = "ok"
    /\ cmd.dest.some
    /\ is_home(cmd.dest.val)
    /\ is_home(location)

SpawnDeterministic ==
    cmd.name = "spawn_twice" => spawned = respawned

WearsEvade == player.left_ring = "Evade" \/ player.right_ring = "Evade"

\* C17: spawn returns an enemy exactly when evasion is off and the
\* appearance roll is true, whatever the quests, the other rings and the
\* location are; the enemy's level is at least 1.
SpawnIffRoll ==
    cmd.name = "spawn_at" =>
        /\ spawned.some <=> (~WearsEvade /\ cmd.rnd.appear)
        /\ spawned.some => spawned.val.level >= 1

\* The roll passes for a level-1 player and the jitter pulls downwards.
SpawnIffRollWitness ==
    /\ cmd.name = "spawn_at"
    /\ ~WearsEvade
    /\ cmd.rnd.appear
    /\ cmd.rnd.jitter = -1
    /\ player.level = 1
    /\ distance_len(location) = 1
    /\ spawned.some
    /\ spawned.val.level = 1

\* C18: when the boss does not apply, an enemy is the final boss exactly
\* when its condition holds; the shadow exactly when the final boss did not
\* match, the place is home and the mirror roll passed (the player's class
\* under the name shadow, Rare, at the player's level + 3 before the
\* jitter); the dev exactly when neither matched, the place is the data
\* directory and the easter-egg roll passed; and a class of the enemy
\* catalog exactly when none of the three matched.
SpecialsInOrder ==
    (/\ cmd.name = "spawn_at"
     /\ spawned.some
     /\ ~(GuardianUnlocked /\ distance_len(location) > 10)) =>
        LET gor == WearsRuling /\ distance_len(location) >= 100
            sh == location.len = 0 /\ cmd.trng.shadow
            dv == location.rpg /\ cmd.trng.dev
            class == spawned.val.class
        IN /\ class.name = "gorthaur" <=> gor
           /\ class.name = "shadow" <=> (~gor /\ sh)
           /\ class.name = "shadow" =>
                  /\ class = [player.class EXCEPT !.name = "shadow",
                                                  !.category = "Rare"]
                  /\ spawned.val.level =
                         Max(1, player.level + 3 + cmd.rnd.jitter)
           /\ class.name = "dev" <=> (~gor /\ ~sh /\ dv)
           /\ (\E i \in 1..Len(EnemyClasses) : class = EnemyClasses[i])
                  <=> (~gor /\ ~sh /\ ~dv)

\* The final boss wins over an easter egg whose roll passed.
SpecialsInOrderWitness ==
    /\ cmd.name = "spawn_at"
    /\ ~GuardianUnlocked
    /\ WearsRuling
    /\ distance_len(location) = 100
    /\ location.rpg
    /\ cmd.trng.dev
    /\ spawned.some
    /\ spawned.val.class.name = "gorthaur"

\* The level a tier asks of the player.
TierLevel(category) ==
    IF category = "Rare" THEN 5 ELSE IF category = "Legendary" THEN 10 ELSE 1

\* C19: spawn_random returns, for the family drawn, an eligible variant of
\* maximal base health when the player's level meets the tier requirement
\* of at least one variant (so no Rare below level 5 and no Legendary below
\* level 10), and the family's first variant when it meets none.
EligibleMaxHealth ==
    cmd.name = "spawn_random" =>
        LET fam == {i \in 1..Len(EnemyClasses) :
                       EnemyClasses[i].family = cmd.group}
            elig == {i \in fam :
                       player.level >= TierLevel(EnemyClasses[i].category)}
            class == spawned.val.class
        IN IF elig # {}
           THEN /\ \E i \in elig : class = EnemyClasses[i]
                /\ \A j \in elig : EnemyClasses[j].hp[1] <= class.hp[1]
                /\ class.category = "Rare" => player.level >= 5
                /\ class.category = "Legendary" => player.level >= 10
           ELSE \E i \in fam :
                    /\ class = EnemyClasses[i]
                    /\ \A j \in fam : i <= j

\* A Rare variant for a level-5 player, ahead of a Common one of less
\* health and of a Legendary one of the same health.
EligibleMaxHealthWitness ==
    /\ cmd.name = "spawn_random"
    /\ cmd.group = "orc"
    /\ player.level = 5
    /\ spawned.val.class.name = "orc brute"

\* A BattleWon event for the guardian has been handed to the quests.
GuardianDefeated ==
    \E i \in 1..Len(events) :
        events[i] = [kind |-> "BattleWon", enemy |-> "guardian"]

\* C20: once a BattleWon event for the guardian has been handed to the
\* DefeatGuardian quest, no spawn, at any distance and after any further
\* events, returns the guardian.
GuardianNeverAgain ==
    cmd.name = "spawn" /\ GuardianDefeated =>
        ~(spawned.some /\ spawned.val.class.name = "guardian")

\* Beyond the boss distance, after the guardian's defeat and a later
\* victory over a rat, spawn returns another enemy.
GuardianNeverAgainWitness ==
    /\ cmd.name = "spawn"
    /\ Len(events) >= 2
    /\ events[1] = [kind |-> "BattleWon", enemy |-> "guardian"]
    /\ events[Len(events)] = [kind |-> "BattleWon", enemy |-> "rat"]
    /\ distance_len(location) = 11
    /\ spawned.some
    /\ spawned.val.class.name # "guardian"

\* An ItemAdded event for the amulet has been handed to the quests.
AmuletAdded ==
    \E i \in 1..Len(events) :
        events[i] = [kind |-> "ItemAdded", item |-> "Amulet"]

\* C21: after any sequence of events DefeatGuardian is finished exactly when
\* a BattleWon over the guardian is among them, and FindAmulet exactly when
\* an ItemAdded of the amulet is; so no other event changes a flag; and what
\* handle returned last is the flag.
QuestIffEvents ==
    /\ quests.dg <=> GuardianDefeated
    /\ quests.fa <=> AmuletAdded
    /\ cmd.name = "handle" =>
           handled.dg = quests.dg /\ handled.fa = quests.fa

\* The witch's potion, then the amulet, then a rat: only FindAmulet is
\* finished.
QuestIffEventsWitness ==
    /\ events = << [kind |-> "ItemAdded", item |-> "Potion"],
                   [kind |-> "ItemAdded", item |-> "Amulet"],
                   [kind |-> "BattleWon", enemy |-> "rat"] >>
    /\ quests.fa
    /\ ~quests.dg
    /\ handled = [dg |-> FALSE, fa |-> TRUE]

\* C22: a bet with the Gambler at gold g >= 0 is either rejected with the
\* gold unchanged (amount greater than g), or leaves g + amount (win) or
\* g - amount (loss), and the gold is not negative afterwards, whatever the
\* sign of the amount.
BetGoldNonNegative ==
    cmd.name = "bet" =>
        /\ gold >= 0
        /\ \/ /\ result = "err"
              /\ cmd.amount > cmd.gold
              /\ gold = cmd.gold
           \/ /\ result = "ok"
              /\ cmd.flip = 0
              /\ gold = cmd.gold + cmd.amount
           \/ /\ result = "ok"
              /\ cmd.flip # 0
              /\ gold = cmd.gold - cmd.amount

\* The part of C22 that the code keeps: rejected and unchanged, or the
\* stake added on a win and taken on a loss.
BetOutcome ==
    cmd.name = "bet" =>
        \/ /\ result = "err"
           /\ cmd.amount > cmd.gold
           /\ gold = cmd.gold
        \/ /\ result = "ok"
           /\ cmd.amount <= cmd.gold
           /\ gold = IF cmd.flip = 0 THEN cmd.gold + cmd.amount
                                     ELSE cmd.gold - cmd.amount

\* A won bet of a negative amount: the gold is below zero.
BetGoldNegative ==
    /\ cmd.name = "bet"
    /\ result = "ok"
    /\ cmd.amount < 0
    /\ cmd.flip = 0
    /\ gold < 0

\* C23: a Battle command issued with an enemy in the combat slot fails with
\* "Already in combat." and leaves the game as it was, whatever the
\* spawner would have drawn: the enemy is the same, with its class, level
\* and health; with an empty slot that is still empty afterwards (the
\* spawner gave no enemy) the command succeeds and changes nothing.
BattleInCombatRejected ==
    [][Running /\ cmd.name = "battle" =>
          /\ in_combat.some =>
                 /\ result' = "err"
                 /\ errmsg' = "Already in combat."
                 /\ resets' = 0
                 /\ GameUnchanged
          /\ (~in_combat.some /\ ~in_combat'.some) =>
                 /\ result' = "ok"
                 /\ GameUnchanged
          /\ ~in_combat.some => result' = "ok"]_vars

\* Battle was issued in a fight the player had been wounded in, and was
\* rejected; the enemy is still there.
BattleInCombatWitness ==
    /\ pc = "ran"
    /\ cmd.name = "battle"
    /\ result = "err"
    /\ errmsg = "Already in combat."
    /\ in_combat.some
    /\ player.current_hp < max_hp(player)

\* C24: when run_game ends, the game as the command left it is in the save
\* file, whether the command succeeded or failed (a death's reset state
\* included), except after a Load that succeeded, which leaves the file as
\* it is.  Nothing is written before the command runs; a write while it runs
\* is the Save command's own, and it writes the game as the command leaves
\* it.
SavedAfterCommand ==
    [][/\ pc = "ran" =>
              /\ GameUnchanged
              /\ IF cmd.name = "load" /\ result = "ok"
                 THEN /\ ~run_game_save(result, should_save)
                      /\ datafile' = datafile
                 ELSE /\ run_game_save(result, should_save)
                      /\ datafile' = datafile_save(Game)
       /\ pc = "shell" => (datafile' = datafile \/ ~datafile'.some)
       /\ pc = "removed" => datafile' = datafile
       /\ (pc = "loaded" /\ datafile' # datafile) =>
              /\ cmd.name = "save"
              /\ datafile' = datafile_save(Game')]_vars

\* run_game has ended after a command on which the player died: the
\* command failed, the game was reset, and the file holds the reset game
\* with the tombstone.
SavedAfterDeath ==
    /\ pc = "shell"
    /\ cmd.name \in {"attack", "cd"}
    /\ result = "err"
    /\ resets = 1
    /\ Len(tombstones) = 1
    /\ datafile = datafile_save(Game)

====
